---- MODULE Spec2Model ----
(***************************************************************************)
(* Model of breakmer/processor/target.py (BreaKmer, Python 2): the         *)
(* per-target pipeline of TargetManager and its Variation aggregate.       *)
(*                                                                         *)
(* One target is analysed by calling, in this order, find_sv_reads,        *)
(* compare_kmers, resolve_sv and complete_analysis.  Every dictionary of   *)
(* the program (files, var_reads, cleaned_read_recs, kmers) is a function  *)
(* whose DOMAIN is the set of keys present; indexing a missing key raises  *)
(* KeyError as in Python, and an exception leaves the method at once and   *)
(* ends the target's run (target.py has no try/except).                    *)
(*                                                                         *)
(* Line 133 of target.py (`for chrom, int(start), int(end) in ...`) is     *)
(* not valid Python; the model reads it as the evident loop over           *)
(* (chrom, start, end) and models the methods as written otherwise.        *)
(***************************************************************************)
EXTENDS Integers, Sequences, FiniteSets, TLC

(* ---------------------------- bounds ----------------------------------- *)
NumKmers == 2        \* size of the kmer universe
MaxCount == 2        \* largest count a kmer has in the sample set
MaxReads == 1        \* largest number of cleaned read records of a sample type
MaxContigs == 2      \* largest number of contigs the clusterer emits
MaxIntervals == 2    \* largest number of intervals of a target
MaxCoord == 2        \* largest genomic coordinate of an interval

Kmer == 1..NumKmers

VARIABLES
    intervals,          \* params.targets[name]
    chrom,              \* TargetManager.chrom
    start,              \* TargetManager.start
    end,                \* TargetManager.end
    nseen,              \* intervals consumed by the loop of setup
    disk,               \* dump the kmer counter gave for a sequence file
    rerun,              \* the caller runs compare_kmers a second time
    first_run,          \* what the first run of compare_kmers produced
    other,              \* the second TargetManager, as the caller left it
    running,            \* which TargetManager the caller is running
    ids,                \* identity of the containers of each instance
    names,              \* self.name of each instance
    normal_bam_file,    \* params.get_param('normal_bam_file') is truthy
    files,              \* TargetManager.files
    var_reads,          \* Variation.var_reads
    cleaned_read_recs,  \* Variation.cleaned_read_recs
    kmers,              \* Variation.kmers (kmer_dict)
    sample_only_mers,   \* local of compare_kmers
    norm_kmers,         \* local of compare_kmers
    results,            \* Variation.results
    output_dir,         \* the directory paths['output'] exists
    written,            \* artifacts on disk
    check,              \* value returned by the last clean_reads
    fsr_ret,            \* value returned by find_sv_reads
    exc,                \* exception that left a method, or NoExc
    iter,               \* local of resolve_sv
    trace,              \* stages entered and returned from, in order
    pc                  \* position of the target's run

setupVars == <<intervals, chrom, start, end, nseen>>

rerunVars == <<disk, rerun, first_run>>

twoVars == <<other, running, ids, names>>

vars == <<setupVars, rerunVars, twoVars, normal_bam_file, files, var_reads,
          cleaned_read_recs, kmers,
          sample_only_mers, norm_kmers, results, output_dir, written, check,
          fsr_ret, exc, iter, trace, pc>>

(* ------------------------- dictionaries -------------------------------- *)
EmptyDict == <<>>

Put(d, k, v) == [x \in (DOMAIN d) \cup {k} |-> IF x = k THEN v ELSE d[x]]

Has(d, k) == k \in DOMAIN d

NoExc == "none"

\* str(type) of the builtin `type`, which is what '%s' % type formats when
\* no local named `type` is in scope (extract_bam_reads,
\* setup_read_extraction_files).
TypeRepr == "<type 'type'>"

Occurred(e) == \E i \in 1..Len(trace) : trace[i] = e

\* One TargetManager only.
OneTarget ==
    /\ other = EmptyDict
    /\ running = 1
    /\ ids = EmptyDict
    /\ names = <<"T">>

\* Nothing recorded of a first run of compare_kmers.
NoRun == [lines |-> <<>>, case_only |-> EmptyDict]

(* ---------------------- TargetManager.setup ---------------------------- *)
\* files after TargetManager.__init__/setup.
FreshFiles ==
    [k \in {"target_ref_fn", "ref_kmer_dump_fn"} |->
        IF k = "target_ref_fn" THEN "ref_data/T_refseq.fa"
        ELSE "ref_data/T_refseq.fa_dump"]

\* The sample-type keyed entries a caller can register on the public
\* dictionaries of the instance before running the stages.  No statement of
\* target.py creates the keys 'sv_fq', 'norm_fq', 'sv_bam', 'sv_bam_sorted'
\* or 'sv_sc_unmapped_fa', nor var_reads['sv'] / var_reads['norm'].
CallerFileKeys ==
    {"sv_fq", "norm_fq", "sv_bam", "sv_bam_sorted",
     "sv_sc_unmapped_fa", "norm_sc_unmapped_fa"}

RegisteredFiles ==
    [k \in (DOMAIN FreshFiles) \cup CallerFileKeys |->
        IF k \in DOMAIN FreshFiles THEN FreshFiles[k] ELSE "data/T_" \o k]

RegisteredReads ==
    [k \in {"sv", "norm"} |-> [bam |-> "caller_" \o k, sv |-> TRUE]]

\* Variation.cleaned_read_recs: None, or a dictionary type -> records.
\* A record list is modelled by its length; NoneRecs stands for None.
NoneRecs == -1
CleanedNone == [isNone |-> TRUE, d |-> EmptyDict]

(* ------------------------- Variation ----------------------------------- *)
\* Variant of lines 52-54 that starts a new dictionary on every call.
setup_cleaned_reads_fresh(crr, type) ==
    [isNone |-> FALSE, d |-> Put(EmptyDict, type, NoneRecs)]

\* `not self.cleaned_read_recs` is true of None and of the empty dictionary.
setup_cleaned_reads(crr, type) ==
    LET base == IF crr.isNone \/ DOMAIN crr.d = {} THEN EmptyDict ELSE crr.d
    IN  [isNone |-> FALSE, d |-> Put(base, type, NoneRecs)]

\* var_reads[type].clear_sv_reads(); the caller has checked the key.
clear_sv_reads(vr, type) == [vr EXCEPT ![type].sv = FALSE]

clear_cleaned_reads(crr) == CleanedNone

continue_analysis_check(crr, type) == ~(crr.d[type] = 0)

add_result(res, result) == Append(res, result)

(* ------------------ TargetManager.rm_output_dir ------------------------ *)
\* shutil.rmtree raises OSError when the directory is missing.
rm_output_dir_ok == output_dir

(* ------------- TargetManager.setup_read_extraction_files --------------- *)
\* Line 340 formats its key with the builtin `type`, not with sampleType.
setup_read_extraction_files(f, sampleType) ==
    LET f1 == Put(f, sampleType \o "_fq",
                  "data/T_" \o sampleType \o "_reads.fastq")
        f2 == Put(f1, TypeRepr \o "_sc_unmapped_fa",
                  "data/T_" \o sampleType \o "_sc_seqs.fa")
    IN  IF sampleType = "sv"
        THEN Put(Put(f2, "sv_bam", "data/T_sv_reads.bam"),
                 "sv_bam_sorted", "data/T_sv_reads.sorted.bam")
        ELSE f2

(* ---------------------- TargetManager.setup ---------------------------- *)
\* None for self.chrom and for self.start / self.end.
NoneChrom == "None"
NoneCoord == -1

Chroms == {"chr1", "chr2"}

Interval ==
    { iv \in [chrom : Chroms, start : 0..MaxCoord, end : 0..MaxCoord] :
        iv.start <= iv.end }

IntervalLists ==
    UNION { [1..n -> Interval] : n \in 1..MaxIntervals }

\* `not x` for a coordinate: true of None and of 0.
FalsyCoord(x) == x = NoneCoord \/ x = 0

\* `not self.chrom`: true of None and of the empty string.
FalsyChrom(c) == c = NoneChrom \/ c = ""

\* Lines 136-137 and 140-141: self.start after one interval.
setup_start(cur, s) ==
    LET s1 == IF FalsyCoord(cur) THEN s ELSE cur
    IN  IF s < s1 THEN s ELSE s1

\* Lines 138-139 and 142-143: self.end after one interval.
setup_end(cur, e) ==
    LET e1 == IF FalsyCoord(cur) THEN e ELSE cur
    IN  IF e > e1 THEN e ELSE e1

\* Lines 132-143: one iteration of the loop over the intervals.
setup_interval ==
    /\ pc = "setup"
    /\ nseen < Len(intervals)
    /\ LET iv == intervals[nseen + 1] IN
          /\ chrom' = IF FalsyChrom(chrom) THEN iv.chrom ELSE chrom
          /\ start' = setup_start(start, iv.start)
          /\ end' = setup_end(end, iv.end)
    /\ nseen' = nseen + 1
    /\ UNCHANGED <<intervals, rerunVars, twoVars, normal_bam_file, files,
                   var_reads,
                   cleaned_read_recs, kmers, sample_only_mers, norm_kmers,
                   results, output_dir, written, check, fsr_ret, exc, iter,
                   trace, pc>>

\* Lines 145-172: the paths are created and the reference file names set.
setup_paths ==
    /\ pc = "setup"
    /\ nseen = Len(intervals)
    /\ files' = FreshFiles
    /\ output_dir' = TRUE
    /\ pc' = "ready"
    /\ UNCHANGED <<setupVars, rerunVars, twoVars,
                   normal_bam_file, var_reads, cleaned_read_recs,
                   kmers, sample_only_mers, norm_kmers, results, written,
                   check, fsr_ret, exc, iter, trace>>

\* TargetManager.__init__ up to the call of setup (lines 110-121).
InitSetup ==
    /\ intervals \in IntervalLists
    /\ chrom = NoneChrom
    /\ start = NoneCoord
    /\ end = NoneCoord
    /\ nseen = 0
    /\ disk = EmptyDict
    /\ rerun = "no"
    /\ first_run = NoRun
    /\ OneTarget
    /\ normal_bam_file \in BOOLEAN
    /\ files = EmptyDict
    /\ var_reads = EmptyDict
    /\ cleaned_read_recs = CleanedNone
    /\ kmers = EmptyDict
    /\ sample_only_mers = {}
    /\ norm_kmers = EmptyDict
    /\ results = <<>>
    /\ output_dir = FALSE
    /\ written = [sample_kmers |-> <<>>, contig_result |-> {},
                  contig_bam |-> {}, results |-> FALSE]
    /\ check = TRUE
    /\ fsr_ret = "none"
    /\ exc = NoExc
    /\ iter = 0
    /\ trace = <<>>
    /\ pc = "setup"

NextSetup ==
    \/ setup_interval
    \/ setup_paths

SpecSetup == InitSetup /\ [][NextSetup]_vars

(* ------------------------------ Init ----------------------------------- *)
\* A target of one interval whose construction is over.
Init ==
    /\ intervals = <<[chrom |-> "chr1", start |-> 1, end |-> 2]>>
    /\ chrom = "chr1"
    /\ start = 1
    /\ end = 2
    /\ nseen = 1
    /\ disk = EmptyDict
    /\ rerun = "no"
    /\ first_run = NoRun
    /\ OneTarget
    /\ normal_bam_file \in BOOLEAN
    /\ files \in {FreshFiles, RegisteredFiles}
    /\ var_reads \in {EmptyDict, RegisteredReads}
    /\ cleaned_read_recs = CleanedNone
    /\ kmers = EmptyDict
    /\ sample_only_mers = {}
    /\ norm_kmers = EmptyDict
    /\ results = <<>>
    /\ output_dir = TRUE
    /\ written = [sample_kmers |-> <<>>, contig_result |-> {},
                  contig_bam |-> {}, results |-> FALSE]
    /\ check = TRUE
    /\ fsr_ret = "none"
    /\ exc = NoExc
    /\ iter = 0
    /\ trace = <<>>
    /\ pc = "extract_sv"

\* An exception e leaves the running method and ends the target's run.
Raise(e) == pc' = "raised" /\ exc' = e

(* ------------------- TargetManager.find_sv_reads ----------------------- *)
\* Variant of lines 240-248 that cleans the normal reads before they are
\* extracted.
after_extract_clean_first(sampleType) ==
    IF sampleType = "sv"
    THEN IF normal_bam_file THEN "clean_norm" ELSE "clean_sv"
    ELSE "clean_sv"

\* Lines 240-248: the stage find_sv_reads runs after extract_bam_reads
\* (sampleType) has returned.
after_extract(sampleType) ==
    IF sampleType = "sv"
    THEN IF normal_bam_file THEN "extract_norm" ELSE "clean_sv"
    ELSE "clean_norm"

\* Variant of line 248 that also gates on the cleaned normal reads.
gate_no_reads_any ==
    \/ ~check
    \/ /\ normal_bam_file
       /\ ~cleaned_read_recs.isNone
       /\ Has(cleaned_read_recs.d, "norm")
       /\ cleaned_read_recs.d["norm"] = 0

\* Line 248: `if not self.clean_reads('sv')`.
gate_no_reads == ~check

(* ----------------- TargetManager.extract_bam_reads --------------------- *)
\* Line 292 passes the builtin `type`; lines 302-312 index var_reads and
\* files with the builtin `type` as well.
extract_bam_reads(sampleType) ==
    LET bamType == IF sampleType = "norm" THEN "normal" ELSE "sample"
        f1 == setup_read_extraction_files(files, TypeRepr)
        vr == Put(var_reads, TypeRepr, [bam |-> bamType, sv |-> TRUE])
    IN
    /\ pc = "extract_" \o sampleType
    /\ trace' = Append(trace, "extract_" \o sampleType)
    /\ files' = f1
    /\ UNCHANGED <<setupVars, rerunVars, twoVars,
                   normal_bam_file, cleaned_read_recs, kmers, sample_only_mers,
                   norm_kmers, results, output_dir, written, check, fsr_ret,
                   iter>>
    /\ IF ~Has(f1, "sv_fq")
       THEN Raise("KeyError") /\ UNCHANGED var_reads                \* line 297
       ELSE \/ Raise("CollaboratorError") /\ UNCHANGED var_reads    \* line 302
            \/ /\ var_reads' = vr
               /\ IF sampleType = "sv" /\ ~Has(f1, "sv_bam")
                  THEN Raise("KeyError")                            \* line 307
                  ELSE \/ Raise("CollaboratorError")           \* lines 307-322
                       \/ /\ exc' = exc
                          /\ pc' = after_extract(sampleType)

(* -------------------- TargetManager.clean_reads ------------------------ *)
clean_reads(type) ==
    LET f1 == Put(files, type \o "_cleaned_fq",
                  "data/T_" \o type \o "_reads_cleaned.fastq")
        crr1 == setup_cleaned_reads(cleaned_read_recs, type)
    IN
    /\ pc = "clean_" \o type
    /\ trace' = Append(trace, "clean_" \o type)
    /\ files' = f1
    /\ UNCHANGED <<setupVars, rerunVars, twoVars,
                   normal_bam_file, kmers, sample_only_mers, norm_kmers,
                   results, output_dir, written, fsr_ret, iter>>
    /\ IF ~Has(f1, type \o "_fq")
       THEN Raise("KeyError")                                       \* line 275
            /\ UNCHANGED <<var_reads, cleaned_read_recs, check>>
       ELSE \/ Raise("CollaboratorError")                           \* line 275
               /\ UNCHANGED <<var_reads, cleaned_read_recs, check>>
            \/ IF ~Has(var_reads, type)
               THEN /\ Raise("KeyError")                            \* line 278
                    /\ cleaned_read_recs' = crr1
                    /\ UNCHANGED <<var_reads, check>>
               ELSE \/ /\ Raise("CollaboratorError")                \* line 278
                       /\ cleaned_read_recs' = crr1
                       /\ UNCHANGED <<var_reads, check>>
                    \/ \E n \in 0..MaxReads :
                         /\ cleaned_read_recs' =
                              [crr1 EXCEPT !.d = Put(crr1.d, type, n)]
                         /\ var_reads' = clear_sv_reads(var_reads, type)
                         /\ check' = continue_analysis_check(
                                         cleaned_read_recs', type)
                         /\ exc' = exc
                         /\ pc' = IF type = "norm" THEN "clean_sv"
                                  ELSE "fsr_gate"

(* ------------------- TargetManager.find_sv_reads ----------------------- *)
\* Lines 246-252, after self.clean_reads('sv') has returned `check`.
find_sv_reads_gate ==
    /\ pc = "fsr_gate"
    /\ trace' = Append(trace, "gate")
    /\ UNCHANGED <<setupVars, rerunVars, twoVars,
                   normal_bam_file, files, var_reads, cleaned_read_recs, kmers,
                   sample_only_mers, norm_kmers, results, written, check, iter>>
    /\ IF gate_no_reads
       THEN IF rm_output_dir_ok
            THEN /\ output_dir' = FALSE
                 /\ fsr_ret' = "False"
                 /\ exc' = exc
                 /\ pc' = "done"
            ELSE Raise("OSError") /\ UNCHANGED <<output_dir, fsr_ret>>
       ELSE /\ fsr_ret' = "True"
            /\ exc' = exc
            /\ pc' = "compare_kmers"
            /\ UNCHANGED output_dir

(* ------------------------------ load_kmers ----------------------------- *)
\* A dump file of the kmer counter has one line `mer count` per distinct
\* mer, so a file is a function mer -> count (count >= 1); fns is the list
\* of dump files named by the comma separated string.
AddFile(file, km) ==
    [m \in (DOMAIN km) \cup (DOMAIN file) |->
        (IF m \in DOMAIN km THEN km[m] ELSE 0)
      + (IF m \in DOMAIN file THEN file[m] ELSE 0)]

\* Lines 25-31: the loop over the dump files.
RECURSIVE LoadFiles(_, _)
LoadFiles(fns, km) ==
    IF fns = <<>> THEN km
    ELSE LoadFiles(Tail(fns), AddFile(Head(fns), km))

\* Variant of lines 21-22 that returns a new empty mapping.
load_kmers_reset(fns, km) ==
    IF fns = <<>> THEN EmptyDict ELSE LoadFiles(fns, km)

\* Lines 21-22: `if not fns: return kmers`, else the loop.
load_kmers(fns, km) ==
    IF fns = <<>> THEN km ELSE LoadFiles(fns, km)

\* utils.run_jellyfish counts the kmers of a sequence file; counting is
\* deterministic, so a file that was counted before (and has not changed)
\* gives the same dump again.  A dump is remembered when the caller is
\* going to run compare_kmers again; with two instances the content of each
\* target's sequence files is fixed from the start.
run_jellyfish(fn, D) == IF Has(disk, fn) THEN {disk[fn]} ELSE D

Counted(dk, fn, d) == IF rerun = "no" THEN dk ELSE Put(dk, fn, d)

\* Outputs of utils.run_jellyfish: no dump file, or one dump file whose
\* counts are drawn from C.
Dumps(C) ==
    {<<>>} \cup
    { <<f>> : f \in (UNION { [S -> C] : S \in SUBSET Kmer }) \ {EmptyDict} }

RefDumps == Dumps({1})
CaseDumps == Dumps(1..MaxCount)
CaseScDumps == Dumps({MaxCount})
NormDumps == Dumps({1})

\* list(aSet): CPython lists a set in hash-slot order, a fixed order that
\* is not the sorted one.
HashSlot(m) == NumKmers - m

RECURSIVE ListOf(_)
ListOf(S) ==
    IF S = {} THEN <<>>
    ELSE LET m == CHOOSE x \in S : \A y \in S : HashSlot(x) <= HashSlot(y)
         IN  <<m>> \o ListOf(S \ {m})

(* ------------------- TargetManager.compare_kmers ----------------------- *)
\* Lines 374-375.
sc_and_not_ref(case, case_sc, ref) ==
    ((DOMAIN case) \cap (DOMAIN case_sc)) \ (DOMAIN ref)

\* Variant of line 380 that keeps kmers seen only once in the normal.
subtract_normal_noise(mers, norm) ==
    mers \ {m \in DOMAIN norm : norm[m] > 1}

\* Line 380.
subtract_normal(mers, norm) == mers \ (DOMAIN norm)

\* Variant of line 391 that stores the soft-clip count of the kmer.
case_only_of_sc(mers, case) == [m \in mers |-> kmers["case_sc"][m]]

\* Lines 388-391: the dictionary built by the write loop.
case_only_of(mers, case) == [m \in mers |-> case[m]]

\* Variant of line 386 that opens the sample-kmer file for appending.
sample_kmer_lines_append(mers, case) ==
    LET l == ListOf(mers)
    IN  written.sample_kmers \o [i \in 1..Len(l) |-> <<l[i], case[l[i]]>>]

\* Lines 389-390: the lines of the sample-kmer file.
sample_kmer_lines(mers, case) ==
    LET l == ListOf(mers) IN [i \in 1..Len(l) |-> <<l[i], case[l[i]]>>]

\* The two files of files['target_ref_fn'] (line 154).
RefFwd == "ref_data/T_forward_refseq.fa"
RefRev == "ref_data/T_reverse_refseq.fa"

\* Lines 352-366: the reference kmers of the forward and reverse files
\* ('target_altref_fn' is never in files).
compare_kmers_ref ==
    /\ pc = "compare_kmers"
    /\ trace' = Append(trace, "compare_kmers")
    /\ UNCHANGED <<setupVars, twoVars, rerun, first_run, normal_bam_file, files,
                   var_reads, cleaned_read_recs, sample_only_mers, norm_kmers,
                   results, output_dir, written, check, fsr_ret, iter>>
    /\ \/ /\ Raise("CollaboratorError")
          /\ kmers' = Put(kmers, "ref", EmptyDict)
          /\ UNCHANGED disk
       \/ \E fwd \in run_jellyfish(RefFwd, RefDumps),
             rev \in run_jellyfish(RefRev, RefDumps) :
            /\ kmers' = Put(kmers, "ref",
                            load_kmers(rev, load_kmers(fwd, EmptyDict)))
            /\ disk' = Counted(Counted(disk, RefFwd, fwd), RefRev, rev)
            /\ exc' = exc
            /\ pc' = "ck_case"

\* Lines 368-371.
compare_kmers_case ==
    /\ pc = "ck_case"
    /\ UNCHANGED <<setupVars, twoVars, rerun, first_run, normal_bam_file, files,
                   var_reads, cleaned_read_recs, sample_only_mers, norm_kmers,
                   results, output_dir, written, check, fsr_ret, iter, trace>>
    /\ IF ~Has(files, "sv_cleaned_fq")
       THEN Raise("KeyError") /\ UNCHANGED <<kmers, disk>>          \* line 369
       ELSE \/ /\ Raise("CollaboratorError")
               /\ kmers' = Put(kmers, "case", EmptyDict)
               /\ UNCHANGED disk
            \/ \E d \in run_jellyfish(files["sv_cleaned_fq"], CaseDumps) :
                 /\ kmers' = Put(kmers, "case", load_kmers(d, EmptyDict))
                 /\ disk' = Counted(disk, files["sv_cleaned_fq"], d)
                 /\ exc' = exc
                 /\ pc' = "ck_case_sc"

\* Lines 372-375.
compare_kmers_case_sc ==
    /\ pc = "ck_case_sc"
    /\ UNCHANGED <<setupVars, twoVars, rerun, first_run, normal_bam_file, files,
                   var_reads, cleaned_read_recs, norm_kmers, results,
                   output_dir, written, check, fsr_ret, iter, trace>>
    /\ IF ~Has(files, "sv_sc_unmapped_fa")
       THEN /\ Raise("KeyError")                                    \* line 373
            /\ kmers' = Put(kmers, "case_sc", EmptyDict)
            /\ UNCHANGED <<sample_only_mers, disk>>
       ELSE \/ /\ Raise("CollaboratorError")
               /\ kmers' = Put(kmers, "case_sc", EmptyDict)
               /\ UNCHANGED <<sample_only_mers, disk>>
            \/ \E d \in run_jellyfish(files["sv_sc_unmapped_fa"],
                                      CaseScDumps) :
                 /\ kmers' = Put(kmers, "case_sc", load_kmers(d, EmptyDict))
                 /\ disk' = Counted(disk, files["sv_sc_unmapped_fa"], d)
                 /\ sample_only_mers' =
                      sc_and_not_ref(kmers'["case"], kmers'["case_sc"],
                                     kmers'["ref"])
                 /\ exc' = exc
                 /\ pc' = "ck_norm"

\* Lines 376-382.
compare_kmers_norm ==
    /\ pc = "ck_norm"
    /\ UNCHANGED <<setupVars, twoVars, rerun, first_run, normal_bam_file, files,
                   var_reads, cleaned_read_recs, kmers, results, output_dir,
                   written, check, fsr_ret, iter>>
    /\ IF normal_bam_file
       THEN IF ~Has(files, "norm_cleaned_fq")
            THEN /\ Raise("KeyError")                               \* line 379
                 /\ UNCHANGED <<sample_only_mers, norm_kmers, trace, disk>>
            ELSE \/ /\ Raise("CollaboratorError")
                    /\ UNCHANGED <<sample_only_mers, norm_kmers, trace, disk>>
                 \/ \E d \in run_jellyfish(files["norm_cleaned_fq"],
                                           NormDumps) :
                      /\ norm_kmers' = load_kmers(d, EmptyDict)
                      /\ disk' = Counted(disk, files["norm_cleaned_fq"], d)
                      /\ sample_only_mers' =
                           subtract_normal(sample_only_mers, norm_kmers')
                      /\ trace' = Append(trace, "subtract_norm")
                      /\ exc' = exc
                      /\ pc' = "ck_write"
       ELSE /\ exc' = exc
            /\ pc' = "ck_write"
            /\ UNCHANGED <<sample_only_mers, norm_kmers, trace, disk>>

\* Lines 384-392.
compare_kmers_write ==
    /\ pc = "ck_write"
    /\ files' = Put(files, "sample_kmers", "kmers/T_sample_kmers.out")
    /\ written' = [written EXCEPT !.sample_kmers =
                      sample_kmer_lines(sample_only_mers, kmers["case"])]
    /\ kmers' = Put(kmers, "case_only",
                    case_only_of(sample_only_mers, kmers["case"]))
    /\ first_run' = IF rerun = "pending"
                    THEN [lines |-> written'.sample_kmers,
                          case_only |-> kmers'["case_only"]]
                    ELSE first_run
    /\ pc' = "ck_clear"
    /\ UNCHANGED <<setupVars, twoVars, disk, rerun, normal_bam_file, var_reads,
                   cleaned_read_recs, sample_only_mers, norm_kmers, results,
                   output_dir, check, fsr_ret, exc, iter, trace>>

\* Variant of lines 394-401 that leaves the sample set in place.
compare_kmers_clear_keep_case ==
    /\ pc = "ck_clear"
    /\ kmers' = Put(Put(kmers, "ref", EmptyDict), "case_sc", EmptyDict)
    /\ files' = Put(files, "kmer_clusters", "kmers/T_sample_kmers_merged.out")
    /\ sample_only_mers' = {}
    /\ norm_kmers' = EmptyDict
    /\ pc' = "ck_cluster"
    /\ UNCHANGED <<setupVars, rerunVars, twoVars,
                   normal_bam_file, var_reads, cleaned_read_recs, results,
                   output_dir, written, check, fsr_ret, exc, iter, trace>>

\* Lines 394-401.  The locals sample_only_mers and norm_kmers are dead from
\* here on and are dropped from the state.
compare_kmers_clear ==
    /\ pc = "ck_clear"
    /\ kmers' = Put(Put(Put(kmers, "ref", EmptyDict), "case", EmptyDict),
                    "case_sc", EmptyDict)
    /\ files' = Put(files, "kmer_clusters", "kmers/T_sample_kmers_merged.out")
    /\ sample_only_mers' = {}
    /\ norm_kmers' = EmptyDict
    /\ pc' = "ck_cluster"
    /\ UNCHANGED <<setupVars, rerunVars, twoVars,
                   normal_bam_file, var_reads, cleaned_read_recs, results,
                   output_dir, written, check, fsr_ret, exc, iter, trace>>

\* A contig as the clusterer emits it: no identifier, no step taken yet.
NewContig == [id |-> "", steps |-> <<>>, result |-> FALSE]

\* assembly.init_assembly: the contig lists the clusterer can emit for a
\* sample-specific set; an empty set yields zero contigs.
init_assembly(case_only) ==
    IF DOMAIN case_only = {} THEN {<<>>}
    ELSE { [i \in 1..n |-> NewContig] : n \in 0..MaxContigs }

\* Line 403.
compare_kmers_cluster ==
    /\ pc = "ck_cluster"
    /\ trace' = Append(trace, "init_assembly")
    /\ UNCHANGED <<setupVars, rerunVars, twoVars,
                   normal_bam_file, files, var_reads, cleaned_read_recs,
                   sample_only_mers, norm_kmers, results, output_dir, written,
                   check, fsr_ret, iter>>
    /\ IF cleaned_read_recs.isNone
       THEN Raise("TypeError") /\ UNCHANGED kmers
       ELSE IF ~Has(cleaned_read_recs.d, "sv")
       THEN Raise("KeyError") /\ UNCHANGED kmers
       ELSE \/ Raise("CollaboratorError") /\ UNCHANGED kmers
            \/ \E cl \in init_assembly(kmers["case_only"]) :
                 /\ kmers' = Put(kmers, "clusters", cl)
                 /\ exc' = exc
                 /\ pc' = "ck_return"

\* Lines 404-405.
compare_kmers_return ==
    /\ pc = "ck_return"
    /\ cleaned_read_recs' = clear_cleaned_reads(cleaned_read_recs)
    /\ kmers' = Put(kmers, "case_only", EmptyDict)
    /\ trace' = Append(trace, "compare_kmers:ret")
    /\ pc' = "resolve_sv"
    /\ UNCHANGED <<setupVars, rerunVars, twoVars,
                   normal_bam_file, files, var_reads, sample_only_mers,
                   norm_kmers, results, output_dir, written, check, fsr_ret,
                   exc, iter>>

\* The caller invokes compare_kmers once more after it has returned; the
\* sequence files on disk are as they were.
compare_kmers_again ==
    /\ pc = "resolve_sv"
    /\ rerun = "pending"
    /\ rerun' = "done"
    /\ pc' = "compare_kmers"
    /\ UNCHANGED <<setupVars, twoVars, disk, first_run, normal_bam_file, files,
                   var_reads, cleaned_read_recs, kmers, sample_only_mers,
                   norm_kmers, results, output_dir, written, check, fsr_ret,
                   exc, iter, trace>>

\* The instance when find_sv_reads has returned True and compare_kmers is
\* entered (lines 246-252 took the branch that keeps the target).
CompareEntry ==
    /\ intervals = <<[chrom |-> "chr1", start |-> 1, end |-> 2]>>
    /\ chrom = "chr1"
    /\ start = 1
    /\ end = 2
    /\ nseen = 1
    /\ normal_bam_file \in BOOLEAN
    /\ files =
         LET f1 == setup_read_extraction_files(RegisteredFiles, TypeRepr)
             f2 == IF normal_bam_file
                   THEN Put(f1, "norm_cleaned_fq",
                            "data/T_norm_reads_cleaned.fastq")
                   ELSE f1
         IN  Put(f2, "sv_cleaned_fq", "data/T_sv_reads_cleaned.fastq")
    /\ var_reads =
         LET vr1 == Put(RegisteredReads, TypeRepr,
                        [bam |-> IF normal_bam_file THEN "normal"
                                 ELSE "sample",
                         sv |-> TRUE])
             vr2 == IF normal_bam_file THEN clear_sv_reads(vr1, "norm")
                    ELSE vr1
         IN  clear_sv_reads(vr2, "sv")
    /\ cleaned_read_recs =
         [isNone |-> FALSE,
          d |-> IF normal_bam_file
                THEN Put(Put(EmptyDict, "norm", 1), "sv", 1)
                ELSE Put(EmptyDict, "sv", 1)]
    /\ kmers = EmptyDict
    /\ sample_only_mers = {}
    /\ norm_kmers = EmptyDict
    /\ results = <<>>
    /\ output_dir = TRUE
    /\ written = [sample_kmers |-> <<>>, contig_result |-> {},
                  contig_bam |-> {}, results |-> FALSE]
    /\ check = TRUE
    /\ fsr_ret = "True"
    /\ exc = NoExc
    /\ iter = 0
    /\ trace = IF normal_bam_file
               THEN <<"extract_sv", "extract_norm", "clean_norm",
                      "clean_sv", "gate">>
               ELSE <<"extract_sv", "clean_sv", "gate">>
    /\ pc = "compare_kmers"

\* compare_kmers run twice by the caller on the same sequence files.
InitRerun ==
    /\ CompareEntry
    /\ disk = EmptyDict
    /\ rerun = "pending"
    /\ first_run = NoRun
    /\ OneTarget

NextRerun ==
    \/ compare_kmers_ref
    \/ compare_kmers_case
    \/ compare_kmers_case_sc
    \/ compare_kmers_norm
    \/ compare_kmers_write
    \/ compare_kmers_clear
    \/ compare_kmers_cluster
    \/ compare_kmers_return
    \/ compare_kmers_again

SpecRerun == InitRerun /\ [][NextRerun]_vars

(* --------------------- TargetManager.resolve_sv ------------------------ *)
\* Names bound inside resolve_sv: its locals and the globals of the module.
\* `result` (line 426) is not among them.
ResolveSvNames ==
    {"self", "iter", "contigs", "contig", "contig_id",
     "os", "pysam", "shutil", "utils", "bam_handler", "assembly",
     "load_kmers", "Variation", "TargetManager"}

\* A step of the contig being resolved is recorded on the contig.
DoStep(cl, i, s) == [cl EXCEPT ![i].steps = Append(@, s)]

\* The loop of line 415 moves to the next contig, or resolve_sv returns.
NextContig(i) ==
    IF i < Len(kmers["clusters"]) THEN "rs_meta" ELSE "complete_analysis"

\* Lines 411-413.
resolve_sv_start ==
    /\ pc = "resolve_sv"
    /\ trace' = Append(trace, "resolve_sv")
    /\ UNCHANGED <<setupVars, rerunVars, twoVars,
                   normal_bam_file, files, var_reads, cleaned_read_recs, kmers,
                   sample_only_mers, norm_kmers, results, output_dir, written,
                   check, fsr_ret>>
    /\ IF ~Has(kmers, "clusters")
       THEN Raise("KeyError") /\ iter' = 1
       ELSE /\ iter' = 1
            /\ exc' = exc
            /\ pc' = NextContig(0)

\* Lines 416-418.
resolve_sv_set_meta ==
    /\ pc = "rs_meta"
    /\ UNCHANGED <<setupVars, rerunVars, twoVars,
                   normal_bam_file, files, var_reads, cleaned_read_recs,
                   sample_only_mers, norm_kmers, results, output_dir, written,
                   check, fsr_ret, iter, trace>>
    /\ IF ~Has(files, "kmer_clusters")
       THEN Raise("KeyError") /\ UNCHANGED kmers
       ELSE \/ Raise("CollaboratorError") /\ UNCHANGED kmers
            \/ /\ kmers' = [kmers EXCEPT !["clusters"] =
                    [DoStep(@, iter, "set_meta_information")
                        EXCEPT ![iter].id = "contig" \o ToString(iter)]]
               /\ exc' = exc
               /\ pc' = "rs_query"

\* Line 420.
resolve_sv_query_ref ==
    /\ pc = "rs_query"
    /\ UNCHANGED <<setupVars, rerunVars, twoVars,
                   normal_bam_file, files, var_reads, cleaned_read_recs,
                   sample_only_mers, norm_kmers, results, output_dir, written,
                   check, fsr_ret, iter, trace>>
    /\ \/ Raise("CollaboratorError") /\ UNCHANGED kmers
       \/ /\ kmers' = [kmers EXCEPT !["clusters"] = DoStep(@, iter, "query_ref")]
          /\ exc' = exc
          /\ pc' = "rs_calls"

\* Line 421: call derivation decides whether the contig has a result.
resolve_sv_make_calls ==
    /\ pc = "rs_calls"
    /\ UNCHANGED <<setupVars, rerunVars, twoVars,
                   normal_bam_file, files, var_reads, cleaned_read_recs,
                   sample_only_mers, norm_kmers, results, output_dir, written,
                   check, fsr_ret, iter, trace>>
    /\ \/ Raise("CollaboratorError") /\ UNCHANGED kmers
       \/ \E r \in BOOLEAN :
            /\ kmers' = [kmers EXCEPT !["clusters"] =
                    [DoStep(@, iter, "make_calls") EXCEPT ![iter].result = r]]
            /\ exc' = exc
            /\ pc' = "rs_result"

\* Variant of lines 423-424 that writes the result without asking
\* has_result().
resolve_sv_write_result_always ==
    /\ pc = "rs_result"
    /\ UNCHANGED <<setupVars, rerunVars, twoVars,
                   normal_bam_file, files, var_reads, cleaned_read_recs,
                   sample_only_mers, norm_kmers, results, output_dir, check,
                   fsr_ret, trace, iter>>
    /\ kmers' = [kmers EXCEPT !["clusters"] = DoStep(@, iter, "write_result")]
    /\ written' = [written EXCEPT !.contig_result =
                      @ \cup {kmers["clusters"][iter].id}]
    /\ exc' = exc
    /\ pc' = "rs_bam"

\* Lines 423-424 and 427-429.
resolve_sv_write_result ==
    /\ pc = "rs_result"
    /\ UNCHANGED <<setupVars, rerunVars, twoVars,
                   normal_bam_file, files, var_reads, cleaned_read_recs,
                   sample_only_mers, norm_kmers, results, output_dir, check,
                   fsr_ret, trace>>
    /\ IF kmers["clusters"][iter].result
       THEN \/ Raise("CollaboratorError") /\ UNCHANGED <<kmers, written, iter>>
            \/ /\ kmers' = [kmers EXCEPT !["clusters"] =
                               DoStep(@, iter, "write_result")]
               /\ written' = [written EXCEPT !.contig_result =
                                 @ \cup {kmers["clusters"][iter].id}]
               /\ exc' = exc
               /\ pc' = "rs_bam"
               /\ UNCHANGED iter
       ELSE /\ iter' = iter + 1
            /\ exc' = exc
            /\ pc' = NextContig(iter)
            /\ UNCHANGED <<kmers, written>>

\* Line 425.
resolve_sv_write_bam ==
    /\ pc = "rs_bam"
    /\ UNCHANGED <<setupVars, rerunVars, twoVars,
                   normal_bam_file, files, var_reads, cleaned_read_recs,
                   sample_only_mers, norm_kmers, results, output_dir, check,
                   fsr_ret, iter, trace>>
    /\ \/ Raise("CollaboratorError") /\ UNCHANGED <<kmers, written>>
       \/ /\ kmers' = [kmers EXCEPT !["clusters"] = DoStep(@, iter, "write_bam")]
          /\ written' = [written EXCEPT !.contig_bam =
                            @ \cup {kmers["clusters"][iter].id}]
          /\ exc' = exc
          /\ pc' = "rs_add"

\* Lines 426 and 429: the argument `result` is evaluated before add_result
\* is called.
resolve_sv_add_result ==
    /\ pc = "rs_add"
    /\ UNCHANGED <<setupVars, rerunVars, twoVars,
                   normal_bam_file, files, var_reads, cleaned_read_recs, kmers,
                   sample_only_mers, norm_kmers, output_dir, written, check,
                   fsr_ret, trace>>
    /\ IF "result" \in ResolveSvNames
       THEN /\ results' = add_result(results, kmers["clusters"][iter].id)
            /\ iter' = iter + 1
            /\ exc' = exc
            /\ pc' = NextContig(iter)
       ELSE Raise("NameError") /\ UNCHANGED <<results, iter>>

(* ------------------ TargetManager.complete_analysis -------------------- *)
\* Attributes of a TargetManager instance (set in __init__) and the
\* methods of the class; `results` belongs to self.variation, and no
\* write_results is defined.
TargetManagerAttrs ==
    {"params", "loggingName", "name", "chrom", "start", "end", "paths",
     "files", "read_len", "repeat_mask", "variation", "regionBuffer",
     "setup", "add_path", "set_ref_data", "find_sv_reads", "clean_reads",
     "extract_bam_reads", "setup_read_extraction_files", "compare_kmers",
     "resolve_sv", "complete_analysis", "get_target_intervals", "get_values",
     "get_sv_reads", "clear_sv_reads", "clear_cleaned_reads", "rm_output_dir",
     "add_result"}

\* Lines 431-436.
complete_analysis ==
    /\ pc = "complete_analysis"
    /\ trace' = Append(trace, "complete_analysis")
    /\ UNCHANGED <<setupVars, rerunVars, twoVars,
                   normal_bam_file, files, var_reads, cleaned_read_recs, kmers,
                   sample_only_mers, norm_kmers, results, check, fsr_ret, iter>>
    /\ IF "results" \notin TargetManagerAttrs
       THEN Raise("AttributeError") /\ UNCHANGED <<output_dir, written>>
       ELSE IF Len(results) > 0
       THEN IF "write_results" \notin TargetManagerAttrs
            THEN Raise("AttributeError") /\ UNCHANGED <<output_dir, written>>
            ELSE /\ written' = [written EXCEPT !.results = TRUE]
                 /\ exc' = exc
                 /\ pc' = "done"
                 /\ UNCHANGED output_dir
       ELSE IF rm_output_dir_ok
            THEN /\ output_dir' = FALSE
                 /\ exc' = exc
                 /\ pc' = "done"
                 /\ UNCHANGED written
            ELSE Raise("OSError") /\ UNCHANGED <<output_dir, written>>

Next ==
    \/ extract_bam_reads("sv")
    \/ extract_bam_reads("norm")
    \/ clean_reads("norm")
    \/ clean_reads("sv")
    \/ find_sv_reads_gate
    \/ compare_kmers_ref
    \/ compare_kmers_case
    \/ compare_kmers_case_sc
    \/ compare_kmers_norm
    \/ compare_kmers_write
    \/ compare_kmers_clear
    \/ compare_kmers_cluster
    \/ compare_kmers_return
    \/ resolve_sv_start
    \/ resolve_sv_set_meta
    \/ resolve_sv_query_ref
    \/ resolve_sv_make_calls
    \/ resolve_sv_write_result
    \/ resolve_sv_write_bam
    \/ resolve_sv_add_result
    \/ complete_analysis

Spec == Init /\ [][Next]_vars

(* ------------------ two TargetManager instances ------------------------ *)
\* The caller holds two TargetManager instances built from the same
\* ParamManager and calls their stage methods in any order.  The variables
\* of the stages hold the instance whose method is running; `other` holds
\* the instance the caller is not running.  In path strings "T" stands for
\* self.name.

\* The containers an instance is given by the constructors and mutates in
\* place afterwards (they are never rebound): self.files (line 117),
\* variation.var_reads (40), variation.kmers (44), variation.results (45).
Containers == {"files", "var_reads", "kmers", "results"}

\* Variant in which the containers are class attributes, one object for
\* every instance.
NewObj_class_attribute(i, a) == <<0, a>>

\* A `{}` or `[]` evaluated in __init__ is a new object at each call.
NewObj(i, a) == <<i, a>>

\* The same object is bound to attribute a of both instances.
SameObject(a) == ids[1][a] = ids[2][a]

\* Every path of setup (lines 146-154) and of the stages has self.name in
\* it: the two instances use the same files and directories exactly when
\* they have the same name.
SamePaths == names[1] = names[2]

TargetNames == {"T", "U"}

\* Dumps of the kmer counter for the sequence files of one target.
SeqDumps(ref, case, sc, norm) ==
    Put(Put(Put(Put(Put(EmptyDict,
        RefFwd, ref),
        RefRev, <<>>),
        "data/T_sv_reads_cleaned.fastq", case),
        "data/T_sv_sc_unmapped_fa", sc),
        "data/T_norm_reads_cleaned.fastq", norm)

\* A target whose sample has the kmer NumKmers that the reference lacks,
\* and a target whose sample gave no kmers.
TwoDisks ==
    { SeqDumps(<<[m \in {1} |-> 1]>>, <<[m \in Kmer |-> MaxCount]>>,
               <<[m \in {NumKmers} |-> MaxCount]>>, <<>>),
      SeqDumps(<<[m \in {1} |-> 1]>>, <<>>, <<>>, <<>>) }

\* The instance the caller is running, attribute by attribute.
View ==
    [files |-> files, var_reads |-> var_reads,
     cleaned_read_recs |-> cleaned_read_recs, kmers |-> kmers,
     sample_only_mers |-> sample_only_mers, norm_kmers |-> norm_kmers,
     results |-> results, output_dir |-> output_dir, written |-> written,
     disk |-> disk, check |-> check, fsr_ret |-> fsr_ret, exc |-> exc,
     iter |-> iter, trace |-> trace, pc |-> pc]

\* Lines 39-46 and 109-122 for an instance: as Init.
NewInstance(f, vr, dk) ==
    [files |-> f, var_reads |-> vr, cleaned_read_recs |-> CleanedNone,
     kmers |-> EmptyDict, sample_only_mers |-> {}, norm_kmers |-> EmptyDict,
     results |-> <<>>, output_dir |-> TRUE,
     written |-> [sample_kmers |-> <<>>, contig_result |-> {},
                  contig_bam |-> {}, results |-> FALSE],
     disk |-> dk, check |-> TRUE, fsr_ret |-> "none", exc |-> NoExc,
     iter |-> 0, trace |-> <<>>, pc |-> "extract_sv"]

\* No stage method of the running instance is in progress.
BetweenStages ==
    pc \in {"extract_sv", "compare_kmers", "resolve_sv",
            "complete_analysis", "done", "raised"}

\* The caller turns to its other TargetManager.  What that instance finds
\* in a container is what was left in the object bound to it, and what it
\* finds on disk is what was left under its paths.
switch ==
    /\ BetweenStages
    /\ running' = 3 - running
    /\ other' = View
    /\ files' = IF SameObject("files") THEN files ELSE other.files
    /\ var_reads' = IF SameObject("var_reads") THEN var_reads
                    ELSE other.var_reads
    /\ kmers' = IF SameObject("kmers") THEN kmers ELSE other.kmers
    /\ results' = IF SameObject("results") THEN results ELSE other.results
    /\ output_dir' = IF SamePaths THEN output_dir ELSE other.output_dir
    /\ written' = IF SamePaths THEN written ELSE other.written
    /\ disk' = IF SamePaths THEN disk ELSE other.disk
    /\ cleaned_read_recs' = other.cleaned_read_recs
    /\ sample_only_mers' = other.sample_only_mers
    /\ norm_kmers' = other.norm_kmers
    /\ check' = other.check
    /\ fsr_ret' = other.fsr_ret
    /\ exc' = other.exc
    /\ iter' = other.iter
    /\ trace' = other.trace
    /\ pc' = other.pc
    /\ UNCHANGED <<setupVars, rerun, first_run, ids, names,
                   normal_bam_file>>

\* Both constructors have run (lines 39-46, 109-122); the caller starts
\* with the first instance.
InitTwo ==
    /\ intervals = <<[chrom |-> "chr1", start |-> 1, end |-> 2]>>
    /\ chrom = "chr1"
    /\ start = 1
    /\ end = 2
    /\ nseen = 1
    /\ rerun = "no"
    /\ first_run = NoRun
    /\ running = 1
    /\ ids = [i \in 1..2 |-> [a \in Containers |-> NewObj(i, a)]]
    /\ names \in [1..2 -> TargetNames]
    /\ normal_bam_file \in BOOLEAN
    /\ files \in {FreshFiles, RegisteredFiles}
    /\ var_reads \in {EmptyDict, RegisteredReads}
    /\ disk \in TwoDisks
    /\ other \in { NewInstance(f, vr, dk) :
                      f \in {FreshFiles, RegisteredFiles},
                      vr \in {EmptyDict, RegisteredReads},
                      dk \in TwoDisks }
    /\ cleaned_read_recs = CleanedNone
    /\ kmers = EmptyDict
    /\ sample_only_mers = {}
    /\ norm_kmers = EmptyDict
    /\ results = <<>>
    /\ output_dir = TRUE
    /\ written = [sample_kmers |-> <<>>, contig_result |-> {},
                  contig_bam |-> {}, results |-> FALSE]
    /\ check = TRUE
    /\ fsr_ret = "none"
    /\ exc = NoExc
    /\ iter = 0
    /\ trace = <<>>
    /\ pc = "extract_sv"

NextTwo == Next \/ switch

SpecTwo == InitTwo /\ [][NextTwo]_vars

(* ======================= properties of the claims ====================== *)
KeysOf(d) == DOMAIN d

LineMers(lines) == { lines[i][1] : i \in 1..Len(lines) }

\* The run has left find_sv_reads at this state: it returned, or one of its
\* own statements raised (a failing collaborator is a separate matter).
FsrJustEnded ==
    \/ pc = "compare_kmers" /\ fsr_ret = "True"
    \/ pc = "done" /\ fsr_ret = "False"
    \/ pc = "raised" /\ exc # "CollaboratorError" /\ fsr_ret = "none"

\* Number of cleaned sample records the target holds.
CleanedSv ==
    IF cleaned_read_recs.isNone \/ ~Has(cleaned_read_recs.d, "sv")
    THEN 0
    ELSE IF cleaned_read_recs.d["sv"] = NoneRecs THEN 0
         ELSE cleaned_read_recs.d["sv"]

Clusters == IF Has(kmers, "clusters") THEN kmers["clusters"] ELSE <<>>

\* C1: once compare_kmers has built the sample-specific set and written the
\* sample-kmer file, the keys of kmers['case_only'] and the mers of the file
\* lines are exactly (sample /\ softclip) - reference - normal when a normal
\* BAM is configured and (sample /\ softclip) - reference otherwise.
C1_SampleSpecificKeys ==
    pc = "ck_clear" =>
        LET base == (KeysOf(kmers["case"]) \cap KeysOf(kmers["case_sc"]))
                        \ KeysOf(kmers["ref"])
            expected == IF normal_bam_file THEN base \ KeysOf(norm_kmers)
                        ELSE base
        IN  /\ KeysOf(kmers["case_only"]) = expected
            /\ LineMers(written.sample_kmers) = expected
            /\ Len(written.sample_kmers) = Cardinality(expected)

\* A normal kmer seen once, with the same count as in the sample, is
\* excluded while another kmer survives.
C1_Witness ==
    /\ pc = "ck_clear"
    /\ normal_bam_file
    /\ KeysOf(kmers["case_only"]) # {}
    /\ \E m \in KeysOf(norm_kmers) :
          /\ m \in (KeysOf(kmers["case"]) \cap KeysOf(kmers["case_sc"]))
                      \ KeysOf(kmers["ref"])
          /\ norm_kmers[m] = 1
          /\ kmers["case"][m] = 1
          /\ m \notin KeysOf(kmers["case_only"])

\* C2: every kmer of the sample-specific set is a key of the sample set and
\* the count stored and written for it is its count in the sample set.
C2_SampleCountKept ==
    pc = "ck_clear" =>
        /\ \A m \in KeysOf(kmers["case_only"]) :
              /\ m \in KeysOf(kmers["case"])
              /\ kmers["case_only"][m] = kmers["case"][m]
        /\ \A i \in 1..Len(written.sample_kmers) :
              /\ written.sample_kmers[i][1] \in KeysOf(kmers["case"])
              /\ written.sample_kmers[i][2] =
                     kmers["case"][written.sample_kmers[i][1]]

\* A surviving kmer whose soft-clip count differs from its sample count.
C2_Witness ==
    /\ pc = "ck_clear"
    /\ \E m \in KeysOf(kmers["case_only"]) :
          /\ kmers["case_sc"][m] # kmers["case"][m]
          /\ kmers["case_only"][m] = 1

\* C3: find_sv_reads returns False and removes the output directory when
\* zero cleaned sample reads remain, and returns True and leaves the
\* directory in place when at least one remains.
C3_GateOutcome ==
    FsrJustEnded =>
        IF CleanedSv = 0
        THEN fsr_ret = "False" /\ ~output_dir
        ELSE fsr_ret = "True" /\ output_dir

\* C4: complete_analysis never raises and does exactly one of: write the
\* aggregate results (result list non-empty), remove the output directory
\* (result list empty).
C4_Finalize ==
    Occurred("complete_analysis") =>
        /\ exc = NoExc
        /\ IF Len(results) > 0
           THEN written.results /\ output_dir
           ELSE ~written.results /\ ~output_dir

\* The identifiers of the contigs that have a result, in emission order.
RECURSIVE ResultIds(_)
ResultIds(cl) ==
    IF cl = <<>> THEN <<>>
    ELSE (IF Head(cl).result THEN <<Head(cl).id>> ELSE <<>>)
            \o ResultIds(Tail(cl))

ResolveEnded ==
    /\ Occurred("resolve_sv")
    /\ \/ pc \in {"complete_analysis", "done"}
       \/ pc = "raised" /\ exc # "CollaboratorError"

\* C5: when resolve_sv is over, the result list holds exactly the contigs
\* that have a result, each once, in emission order.
C5_ResultList ==
    ResolveEnded => results = ResultIds(Clusters)

StepOrder ==
    <<"set_meta_information", "query_ref", "make_calls",
      "write_result", "write_bam">>

IsPrefix(s, t) ==
    /\ Len(s) <= Len(t)
    /\ \A i \in 1..Len(s) : s[i] = t[i]

\* C6: the steps of every contig are taken in the order set_meta_information,
\* query_ref, make_calls, write_result, write_bam; a write is made only
\* after make_calls and only for a contig that has a result.
C6_StepOrder ==
    /\ \A i \in 1..Len(Clusters) :
          /\ IsPrefix(Clusters[i].steps, StepOrder)
          /\ Len(Clusters[i].steps) > 3 => Clusters[i].result
    /\ \A id \in written.contig_result \cup written.contig_bam :
          \E i \in 1..Len(Clusters) :
             /\ Clusters[i].id = id
             /\ Clusters[i].result
             /\ Len(Clusters[i].steps) > 3

\* A contig without a result was passed over with no write, and a later
\* contig with a result had both artifacts written.
C6_Witness ==
    \E i, j \in 1..Len(Clusters) :
       /\ i < j
       /\ ~Clusters[i].result
       /\ Clusters[i].steps = SubSeq(StepOrder, 1, 3)
       /\ Clusters[j].result
       /\ Clusters[j].steps = StepOrder
       /\ Clusters[j].id \in written.contig_bam

\* C7: a target whose collaborator invocation failed has no output
\* directory.
C7_FailureCleanup ==
    exc = "CollaboratorError" => ~output_dir

\* The run is over without a collaborator failure and found no signal:
\* no cleaned sample read, or no contig with a call after clustering.
NoSignalEnd ==
    /\ pc \in {"done", "raised"}
    /\ exc # "CollaboratorError"
    /\ \/ Occurred("gate") /\ ~check
       \/ /\ Occurred("compare_kmers:ret")
          /\ \A i \in 1..Len(Clusters) : ~Clusters[i].result

\* C8: every no-signal outcome ends with the output directory removed and
\* with no stage raising.
C8_NoSignalCleanup ==
    NoSignalEnd => ~output_dir /\ exc = NoExc

\* C9: without a normal BAM no 'norm' stage runs and nothing is subtracted;
\* with a normal BAM both 'norm' stages have run when find_sv_reads is over
\* and the normal set is subtracted in compare_kmers.
C9_NormalStages ==
    /\ ~normal_bam_file =>
          /\ ~Occurred("extract_norm")
          /\ ~Occurred("clean_norm")
          /\ ~Occurred("subtract_norm")
    /\ normal_bam_file /\ FsrJustEnded =>
          Occurred("extract_norm") /\ Occurred("clean_norm")
    /\ normal_bam_file /\ Occurred("compare_kmers:ret") =>
          Occurred("subtract_norm")

\* C10: when the sample-specific set is handed to the clusterer the
\* reference, sample and soft-clip sets of the kmer dictionary are empty,
\* and once compare_kmers has returned 'case_only' is empty as well.
C10_SetsReleased ==
    /\ pc = "ck_cluster" =>
          /\ kmers["ref"] = EmptyDict
          /\ kmers["case"] = EmptyDict
          /\ kmers["case_sc"] = EmptyDict
    /\ Occurred("compare_kmers:ret") =>
          /\ kmers["ref"] = EmptyDict
          /\ kmers["case"] = EmptyDict
          /\ kmers["case_sc"] = EmptyDict
          /\ kmers["case_only"] = EmptyDict

\* compare_kmers returned a non-empty cluster list built from a non-empty
\* sample-specific set.
C10_Witness ==
    /\ pc = "resolve_sv"
    /\ Len(Clusters) > 0
    /\ Len(written.sample_kmers) > 0
    /\ kmers["case_only"] = EmptyDict

\* C11: when resolve_sv is over, the k-th contig of the cluster list has the
\* identifier 'contig' followed by k, and the identifiers of the result list
\* are pairwise distinct and increase along the list.
ContigIndex(id) ==
    CHOOSE i \in 0..Len(Clusters) :
        i = 0 \/ Clusters[i].id = id

C11_ContigIds ==
    ResolveEnded =>
        /\ \A i \in 1..Len(Clusters) :
              Clusters[i].id = "contig" \o ToString(i)
        /\ \A a, b \in 1..Len(results) :
              a < b => /\ results[a] # results[b]
                       /\ ContigIndex(results[a]) < ContigIndex(results[b])

\* C15: once extract_bam_reads('sv') has returned, the reads and the fastq
\* name recorded for 'sv' are those of the sample BAM, and once
\* extract_bam_reads('norm') has returned as well those recorded for 'norm'
\* are those of the normal BAM.
C15_ReadsPerType ==
    /\ pc \in {"extract_norm", "clean_norm", "clean_sv"} =>
          /\ Has(var_reads, "sv")
          /\ var_reads["sv"].bam = "sample"
          /\ Has(files, "sv_fq")
          /\ files["sv_fq"] = "data/T_sv_reads.fastq"
    /\ pc = "clean_norm" =>
          /\ Has(var_reads, "norm")
          /\ var_reads["norm"].bam = "normal"
          /\ Has(files, "norm_fq")
          /\ files["norm_fq"] = "data/T_norm_reads.fastq"

\* Raw reads and cleaned records the target holds for a sample type.
RawOf(t) ==
    IF Has(var_reads, t) THEN var_reads[t] ELSE [bam |-> "absent", sv |-> FALSE]

CleanedOf(t) ==
    IF cleaned_read_recs.isNone \/ ~Has(cleaned_read_recs.d, t)
    THEN -2
    ELSE cleaned_read_recs.d[t]

\* C16 as stated: the lifecycle operations on 'sv' (setup_cleaned_reads and
\* clear_sv_reads inside clean_reads('sv'), clear_cleaned_reads after
\* clustering) leave the raw reads and cleaned records of 'norm' unchanged,
\* and those on 'norm' leave the ones of 'sv' unchanged.
C16_OtherTypeKept ==
    [][ /\ pc \in {"clean_sv", "ck_return"} =>
              /\ RawOf("norm")' = RawOf("norm")
              /\ CleanedOf("norm")' = CleanedOf("norm")
        /\ pc = "clean_norm" =>
              /\ RawOf("sv")' = RawOf("sv")
              /\ CleanedOf("sv")' = CleanedOf("sv") ]_vars

\* C16 amended: setup_cleaned_reads and clear_sv_reads on one sample type
\* leave the other type's raw reads and cleaned records unchanged;
\* clear_cleaned_reads releases the cleaned records of every sample type
\* and leaves the raw reads alone.
C16_LifecycleFrame ==
    [][ /\ pc = "clean_sv" =>
              /\ RawOf("norm")' = RawOf("norm")
              /\ CleanedOf("norm")' = CleanedOf("norm")
        /\ pc = "clean_norm" =>
              /\ RawOf("sv")' = RawOf("sv")
              /\ CleanedOf("sv")' = CleanedOf("sv")
        /\ pc = "ck_return" =>
              /\ cleaned_read_recs' = CleanedNone
              /\ var_reads' = var_reads ]_vars

\* The normal's cleaned records survived clean_reads('sv') and were then
\* released together with the sample's by clear_cleaned_reads.
C16_Witness ==
    /\ pc = "resolve_sv"
    /\ Occurred("clean_norm")
    /\ Occurred("clean_sv")
    /\ cleaned_read_recs = CleanedNone
    /\ Has(var_reads, "norm")

\* Some entry of var_reads still holds raw reads taken from the given BAM.
RawHeld(bam) ==
    \E k \in DOMAIN var_reads : var_reads[k].bam = bam /\ var_reads[k].sv

\* C18: after clean_reads(T) has returned no raw reads extracted for T are
\* held; after compare_kmers has returned no cleaned records are held; the
\* cleaned sample records are there when the clusterer is invoked.
C18_ReadsReleased ==
    /\ pc = "clean_sv" /\ Occurred("clean_norm") => ~RawHeld("normal")
    /\ pc = "fsr_gate" => ~RawHeld("sample")
    /\ Occurred("compare_kmers:ret") => cleaned_read_recs.isNone
    /\ pc = "ck_cluster" => CleanedOf("sv") > 0

\* C19: a normal sample without cleaned reads does not stop the analysis;
\* find_sv_reads returns True exactly when cleaned sample reads exist, and
\* the output directory is removed only when it returns False.
C19_SampleGateOnly ==
    /\ pc = "clean_sv" /\ Occurred("clean_norm") =>
          output_dir /\ fsr_ret = "none"
    /\ pc = "compare_kmers" =>
          fsr_ret = "True" /\ CleanedOf("sv") > 0 /\ output_dir
    /\ fsr_ret = "False" =>
          Occurred("gate") /\ CleanedOf("sv") = 0 /\ ~output_dir

\* find_sv_reads returned True although the configured normal has no cleaned
\* read.
C19_Witness ==
    /\ pc = "compare_kmers"
    /\ fsr_ret = "True"
    /\ normal_bam_file
    /\ CleanedOf("norm") = 0
    /\ output_dir

FsrStages ==
    IF normal_bam_file
    THEN <<"extract_sv", "extract_norm", "clean_norm", "clean_sv", "gate">>
    ELSE <<"extract_sv", "clean_sv", "gate">>

\* C20: the stages of find_sv_reads are entered one after another in the
\* order extract sample, (extract normal, clean normal,) clean sample.
C20_StageOrder ==
    \A i \in 1..Len(trace) :
        i <= Len(FsrStages) => trace[i] = FsrStages[i]

\* All stages of find_sv_reads have run with a normal configured.
C20_Witness ==
    /\ normal_bam_file
    /\ pc = "compare_kmers"
    /\ Len(trace) = Len(FsrStages)

RECURSIVE MinStart(_)
MinStart(ivs) ==
    IF Len(ivs) = 1 THEN ivs[1].start
    ELSE LET r == MinStart(Tail(ivs))
         IN  IF ivs[1].start < r THEN ivs[1].start ELSE r

RECURSIVE MaxEnd(_)
MaxEnd(ivs) ==
    IF Len(ivs) = 1 THEN ivs[1].end
    ELSE LET r == MaxEnd(Tail(ivs))
         IN  IF ivs[1].end > r THEN ivs[1].end ELSE r

\* C17: after setup, start is the smallest start and end the largest end of
\* the target's intervals, and chrom is the chromosome of the first one.
C17_MinMax ==
    pc = "ready" =>
        /\ start = MinStart(intervals)
        /\ end = MaxEnd(intervals)
        /\ chrom = intervals[1].chrom

\* The dump the kmer counter gave for a sequence file, if it was counted.
DumpOf(fn) == IF Has(disk, fn) THEN disk[fn] ELSE <<"not counted">>

\* C13: when compare_kmers is run again on the same sequence files, the
\* sample-kmer file it writes has the same (kmer, count) lines in the same
\* order as the file of the first run, and kmers['case_only'] is the same
\* mapping; nothing of the first run is carried over.
C13_RerunIdentical ==
    (rerun = "done" /\ pc = "ck_clear") =>
        /\ written.sample_kmers = first_run.lines
        /\ kmers["case_only"] = first_run.case_only

C13_Witness ==
    /\ rerun = "done"
    /\ pc = "ck_clear"
    /\ Len(written.sample_kmers) = NumKmers
    /\ \E i \in 1..NumKmers : written.sample_kmers[i][2] = MaxCount

\* C14: when the kmer counter gives no dump file for a sequence file,
\* load_kmers returns the mapping it was given (the forward reference kmers
\* when the reverse file gave nothing, an empty mapping for a fresh set)
\* without raising, and compare_kmers goes on with that set: with an empty
\* sample set it writes an empty sample-kmer file and an empty
\* kmers['case_only'].
C14_EmptyDump ==
    /\ (pc = "ck_case" /\ DumpOf(RefRev) = <<>>) =>
            /\ kmers["ref"] = LoadFiles(DumpOf(RefFwd), EmptyDict)
            /\ exc = NoExc
    /\ (pc = "ck_case_sc" /\ DumpOf(files["sv_cleaned_fq"]) = <<>>) =>
            /\ kmers["case"] = EmptyDict
            /\ exc = NoExc
    /\ (pc = "ck_clear" /\ DumpOf(files["sv_cleaned_fq"]) = <<>>) =>
            /\ written.sample_kmers = <<>>
            /\ kmers["case_only"] = EmptyDict
            /\ exc = NoExc

C14_Witness ==
    /\ pc = "ck_clear"
    /\ DumpOf(RefFwd) # <<>>
    /\ DumpOf(RefRev) = <<>>
    /\ DumpOf(files["sv_cleaned_fq"]) = <<>>
    /\ DumpOf(files["sv_sc_unmapped_fa"]) # <<>>
    /\ exc = NoExc

====
